---- MODULE Spec2Model ----
(***************************************************************************)
(* Model of code/client/conn/conn.go: the client connection that owns one  *)
(* physical link, demultiplexes inbound frames to per-link channels        *)
(* (loopRead), keeps a drop map of suppressed link ids (checkDrop sweeps   *)
(* it), serialises outbound messages (loopWrite) and sends keepalives.     *)
(*                                                                         *)
(* Time is a discrete clock `now` in seconds.  A Go channel is a buffer    *)
(* (a sequence) plus the queue of senders blocked on it; a receive from a  *)
(* full channel hands the first blocked sender's message over in the same  *)
(* step, as the Go runtime does.                                           *)
(***************************************************************************)
EXTENDS Integers, Sequences, FiniteSets, TLC

VARIABLES
    npc,        \* position of New(): "dial", "handshake", "spawn", "returned", "failed"
    conn,       \* conn.conn: "nil", "open", "closed"
    closeCalls, \* number of calls of conn.conn.Close()
    ctxDone,    \* conn.ctx is cancelled
    now,        \* the clock, in seconds
    read,       \* conn.read: link id -> channel (index into chans), NIL if absent
    chans,      \* the channels made so far: chans[UNKNOWN] is conn.unknownRead
    waitq,      \* senders blocked on a channel send, in the order they blocked
    drop,       \* conn.drop: link id -> expiry time, NONE if absent
    rpc,        \* position of loopRead
    rmsg,       \* loopRead: msg
    rch,        \* loopRead: ch
    rat,        \* loopRead: the time at which ReadMessage returned msg
    timeout,    \* loopRead: timeout
    rtimer,     \* loopRead: seconds left of the pending ReadMessage / time.After
    rerrs,      \* number of "read message" errors of the open link logged
    cdpc,       \* position of checkDrop
    ctimer,     \* checkDrop: seconds left of the pending time.Sleep
    drops,      \* checkDrop: drops
    wpc,        \* position of loopWrite
    kpc,        \* position of keepalive
    nframes,    \* frames read off the physical link so far, per link id
    nread,      \* frames read off the physical link so far, of any kind
    nresets,    \* Reset calls made so far
    addCalls,   \* AddLink calls made so far, per link id
    got,        \* what the consumer of each link id has received, in order
    gotUnknown, \* what the consumer of ChanUnknown() has received, in order
    write,      \* conn.write: the buffer of the outbound queue
    wmsg,       \* loopWrite: msg
    sent,       \* the calls of WriteMessage made by loopWrite, in order
    nout,       \* messages put on conn.write so far
    ktimer,     \* keepalive: seconds left until the ticker fires
    lockReg,    \* the RWMutex embedded in Conn: its writer and its readers
    lockDrop,   \* conn.lockDrop: its writer and its readers
    upc         \* position of each caller inside AddLink, Reset and ChanRead

vars == <<npc, conn, closeCalls, ctxDone, now, read, chans, waitq, drop,
          rpc, rmsg, rch, rat, timeout, rtimer, rerrs, cdpc, ctimer, drops, wpc, kpc,
          nframes, nread, nresets, addCalls, got, gotUnknown,
          write, wmsg, sent, nout, ktimer, lockReg, lockDrop, upc>>

newVars   == <<npc, conn>>
sigVars   == <<closeCalls, ctxDone>>
regVars   == <<read, addCalls>>
readVars  == <<rpc, rmsg, rch, rat, timeout, rtimer, rerrs>>
sweepVars == <<cdpc, ctimer, drops>>
loopVars  == <<wpc, kpc>>
wireVars  == <<nframes, nread>>
userVars  == <<got, gotUnknown>>
outVars   == <<write, wmsg, sent, nout, ktimer>>
lockVars  == <<lockReg, lockDrop, upc>>

----------------------------------------------------------------------------
(* Program constants *)

LinkCap == 10
UnknownCap == 1024
MaxTimeouts == 60
DropWindow == 60
SweepInterval == 1
HandshakeTimeout == 5
ReadTimeout == 1
WriteCap == 1024
KeepaliveInterval == 10

(* Bounds of the model *)

MaxTime == 3
MaxFrames == 4
MaxResets == 1
MaxAddLinks == 2
MaxReadErrs == 1
MaxOut == 2

LinkIds == {"A", "B"}

(* The link id of a frame that carries none (a keepalive).                 *)
NoLink == ""

AllIds == LinkIds \cup {NoLink}

(* The message types a caller of Reset injects.                            *)
ResetTypes == {"data"}

NIL == 0
UNKNOWN == 1
NONE == -1

(* No outbound message.                                                    *)
NoOut == [type |-> "none", from |-> "none", orig |-> "none", n |-> 0]

(* A message a producer, or the keepalive loop, puts on conn.write: its     *)
(* type, its sender field, the sender its producer had set, and its        *)
(* position among the messages put on the queue.                           *)
Out(t, f, k) == [type |-> t, from |-> f, orig |-> f, n |-> k]

(* conn.cfg.ID, and a sender a producer may have set instead.              *)
LocalID == "me"
Senders == {LocalID, "peer"}

(* An RWMutex nobody holds.                                                *)
Unlocked == [w |-> "", r |-> {}]

(* The callers that are inside AddLink, Reset or ChanRead.                 *)
Callers3 == {"AddLink", "Reset", "ChanRead"}
Idle == [pc |-> "idle", id |-> "", ch |-> NIL]

NoMsg == [src |-> "none", type |-> "none", link |-> "none", n |-> 0]

(* A frame read off the physical link: its type, its link id, and its      *)
(* position among the frames of that link id.                              *)
Frame(t, l, k) == [src |-> "wire", type |-> t, link |-> l, n |-> k]

(* A message a caller of Reset constructed locally.                        *)
Local(t, l, k) == [src |-> "local", type |-> t, link |-> l, n |-> k]

(* Cap with the per-link capacity one short.                              *)
CapShort(c) == IF c = UNKNOWN THEN UnknownCap ELSE LinkCap - 1

Cap(c) == IF c = UNKNOWN THEN UnknownCap ELSE LinkCap

Full(c) == Len(chans[c]) >= Cap(c)

Remove(q, i) == SubSeq(q, 1, i - 1) \o SubSeq(q, i + 1, Len(q))

(* Senders blocked on channel c, as positions of waitq.                    *)
Waiting(c) == {i \in 1..Len(waitq) : waitq[i].ch = c}

FirstWaiting(c) == CHOOSE i \in Waiting(c) : \A j \in Waiting(c) : i <= j

ReaderAt == CHOOSE i \in 1..Len(waitq) : waitq[i].who = "loopRead"

----------------------------------------------------------------------------
Init ==
    /\ npc = "dial"
    /\ conn = "nil"
    /\ closeCalls = 0
    /\ ctxDone = FALSE
    /\ now = 0
    /\ read = [l \in AllIds |-> NIL]
    /\ chans = << <<>> >>
    /\ waitq = <<>>
    /\ drop = [l \in AllIds |-> NONE]
    /\ rpc = "idle"
    /\ rmsg = NoMsg
    /\ rch = NIL
    /\ rat = 0
    /\ timeout = 0
    /\ rtimer = 0
    /\ rerrs = 0
    /\ cdpc = "idle"
    /\ ctimer = 0
    /\ drops = {}
    /\ wpc = "idle"
    /\ kpc = "idle"
    /\ nframes = [l \in AllIds |-> 0]
    /\ nread = 0
    /\ nresets = 0
    /\ addCalls = [l \in LinkIds |-> 0]
    /\ got = [l \in LinkIds |-> <<>>]
    /\ gotUnknown = <<>>
    /\ write = <<>>
    /\ wmsg = NoOut
    /\ sent = <<>>
    /\ nout = 0
    /\ ktimer = 0
    /\ lockReg = Unlocked
    /\ lockDrop = Unlocked
    /\ upc = [c \in Callers3 |-> Idle]

----------------------------------------------------------------------------
(* New and connect *)

(* Dial with the loops started before connect has returned.                *)
DialSpawn(ok) ==
    /\ npc = "dial"
    /\ npc' = IF ok THEN "handshake" ELSE "failed"
    /\ rpc' = "read"
    /\ rtimer' = ReadTimeout
    /\ wpc' = "select"
    /\ kpc' = "select"
    /\ cdpc' = "sleep"
    /\ ctimer' = SweepInterval
    /\ ktimer' = KeepaliveInterval
    /\ UNCHANGED <<conn, sigVars, now, regVars, chans, waitq, drop, rmsg, rat, rch,
                   timeout, rerrs, drops, wireVars, nresets, userVars,
                   write, wmsg, sent, nout, lockVars>>

(* connect: the dial.  A dial error makes runtime.Assert panic in New.     *)
Dial(ok) ==
    /\ npc = "dial"
    /\ npc' = IF ok THEN "handshake" ELSE "failed"
    /\ UNCHANGED <<conn, sigVars, now, regVars, chans, waitq, drop, readVars,
                   sweepVars, loopVars, wireVars, nresets, userVars,
                   outVars, lockVars>>

(* Handshake with the error of the write ignored.                         *)
HandshakeIgnoreErr(r) ==
    /\ npc = "handshake"
    /\ npc' = "spawn"
    /\ conn' = IF r = "ok" THEN "open" ELSE conn
    /\ now' = IF r = "timeout" THEN now + HandshakeTimeout ELSE now
    /\ UNCHANGED <<sigVars, regVars, chans, waitq, drop, readVars,
                   sweepVars, loopVars, wireVars, nresets, userVars,
                   outVars, lockVars>>

(* connect: writeHandshake, a write bounded by 5 seconds.  conn.conn is    *)
(* set only when the write succeeded.                                      *)
Handshake(r) ==
    /\ npc = "handshake"
    /\ npc' = IF r = "ok" THEN "spawn" ELSE "failed"
    /\ conn' = IF r = "ok" THEN "open" ELSE conn
    /\ now' = IF r = "timeout" THEN now + HandshakeTimeout ELSE now
    /\ UNCHANGED <<sigVars, regVars, chans, waitq, drop, readVars,
                   sweepVars, loopVars, wireVars, nresets, userVars,
                   outVars, lockVars>>

(* New after connect returned nil: the context is made and the four loops  *)
(* are started.                                                            *)
Spawn ==
    /\ npc = "spawn"
    /\ npc' = "returned"
    /\ rpc' = "read"
    /\ rtimer' = ReadTimeout
    /\ wpc' = "select"
    /\ kpc' = "select"
    /\ cdpc' = "sleep"
    /\ ctimer' = SweepInterval
    /\ ktimer' = KeepaliveInterval
    /\ UNCHANGED <<conn, sigVars, now, regVars, chans, waitq, drop, rmsg, rat, rch,
                   timeout, rerrs, drops, wireVars, nresets, userVars,
                   write, wmsg, sent, nout, lockVars>>

----------------------------------------------------------------------------
(* loopRead *)

(* The frames the peer may send next.                                      *)
NextFrames ==
    {Frame("keepalive", NoLink, nframes[NoLink] + 1)}
        \cup {Frame("data", l, nframes[l] + 1) : l \in LinkIds}

(* ReadOk without the reset of line 112.                                  *)
ReadOkNoReset(m, limit) ==
    /\ rpc = "read"
    /\ conn = "open"
    /\ nread < limit
    /\ m \in NextFrames
    /\ nread' = nread + 1
    /\ nframes' = [nframes EXCEPT ![m.link] = @ + 1]
    /\ IF m.type = "keepalive"
       THEN /\ rpc' = "read"
            /\ rtimer' = ReadTimeout
            /\ UNCHANGED <<rmsg, rat>>
       ELSE /\ rmsg' = m
            /\ rat' = now
            /\ rpc' = "checkdrop"
            /\ UNCHANGED rtimer
    /\ UNCHANGED <<newVars, sigVars, now, regVars, chans, waitq, drop, rch,
                   timeout, rerrs, sweepVars, loopVars, nresets, userVars,
                   outVars, lockVars>>

(* ReadOk without the keepalive test of line 113.                         *)
ReadOkRouteAll(m, limit) ==
    /\ rpc = "read"
    /\ conn = "open"
    /\ nread < limit
    /\ m \in NextFrames
    /\ nread' = nread + 1
    /\ timeout' = 0
    /\ nframes' = [nframes EXCEPT ![m.link] = @ + 1]
    /\ rmsg' = m
    /\ rat' = now
    /\ rpc' = "checkdrop"
    /\ UNCHANGED <<newVars, sigVars, now, regVars, chans, waitq, drop, rch,
                   rtimer, rerrs, sweepVars, loopVars, nresets, userVars,
                   outVars, lockVars>>

(* Lines 99-118 with err = nil: the counter is reset, a keepalive frame is *)
(* discarded, any other frame goes on to the drop check.                   *)
ReadOk(m, limit) ==
    /\ rpc = "read"
    /\ conn = "open"
    /\ nread < limit
    /\ m \in NextFrames
    /\ nread' = nread + 1
    /\ timeout' = 0
    /\ nframes' = [nframes EXCEPT ![m.link] = @ + 1]
    /\ IF m.type = "keepalive"
       THEN /\ rpc' = "read"
            /\ rtimer' = ReadTimeout
            /\ UNCHANGED <<rmsg, rat>>
       ELSE /\ rmsg' = m
            /\ rat' = now
            /\ rpc' = "checkdrop"
            /\ UNCHANGED rtimer
    /\ UNCHANGED <<newVars, sigVars, now, regVars, chans, waitq, drop, rch,
                   rerrs, sweepVars, loopVars, nresets, userVars,
                   outVars, lockVars>>

(* Lines 100-108: ReadMessage returned an "i/o timeout" error.             *)
ReadTimeoutErr ==
    /\ rpc = "read"
    /\ conn = "open"
    /\ rtimer = 0
    /\ timeout' = timeout + 1
    /\ IF timeout + 1 >= MaxTimeouts
       THEN rpc' = "cancel" /\ rtimer' = rtimer
       ELSE rpc' = "read" /\ rtimer' = ReadTimeout
    /\ UNCHANGED <<newVars, sigVars, now, regVars, chans, waitq, drop, rmsg, rat,
                   rch, rerrs, sweepVars, loopVars, wireVars, nresets, userVars,
                   outVars, lockVars>>

(* Lines 109-110: ReadMessage returned another error; it is logged and the *)
(* loop goes on.                                                           *)
ReadOtherErr(limit) ==
    /\ rpc = "read"
    /\ rerrs < limit
    /\ rerrs' = rerrs + 1
    /\ rtimer' = ReadTimeout
    /\ UNCHANGED <<newVars, sigVars, now, regVars, chans, waitq, drop, rpc,
                   rmsg, rat, rch, timeout, sweepVars, loopVars, wireVars, nresets,
                   userVars,
                   outVars, lockVars>>

(* Lines 99-101 after the link was closed: ReadMessage returns at once     *)
(* with an error that is not an i/o timeout.                               *)
ReadClosedErr ==
    /\ rpc = "read"
    /\ conn = "closed"
    /\ rpc' = "logerr"
    /\ UNCHANGED <<newVars, sigVars, now, regVars, chans, waitq, drop, rmsg, rat,
                   rch, timeout, rtimer, rerrs, sweepVars, loopVars, wireVars,
                   nresets, userVars, outVars, lockVars>>

(* Lines 109-110: that error is logged and the loop goes on to the next    *)
(* ReadMessage; the context is not looked at.                              *)
ReadErrLogged ==
    /\ rpc = "logerr"
    /\ rpc' = "read"
    /\ rtimer' = ReadTimeout
    /\ UNCHANGED <<newVars, sigVars, now, regVars, chans, waitq, drop, rmsg, rat,
                   rch, timeout, rerrs, sweepVars, loopVars, wireVars, nresets,
                   userVars, outVars, lockVars>>

(* CheckSuppressed with the result of the drop lookup ignored.            *)
CheckSuppressedNever ==
    /\ rpc = "checkdrop"
    /\ rpc' = "lookup"
    /\ UNCHANGED <<newVars, sigVars, now, regVars, chans, waitq, drop, rmsg, rat,
                   rch, timeout, rtimer, rerrs, sweepVars, loopVars, wireVars,
                   nresets, userVars,
                   outVars, lockVars>>

(* CheckSuppressed with a frame discarded when the map holds any entry.    *)
CheckSuppressedAny ==
    /\ rpc = "checkdrop"
    /\ IF \E l \in AllIds : drop[l] # NONE
       THEN rpc' = "read" /\ rmsg' = NoMsg /\ rat' = 0 /\ rtimer' = ReadTimeout
       ELSE rpc' = "lookup" /\ UNCHANGED <<rmsg, rat, rtimer>>
    /\ UNCHANGED <<newVars, sigVars, now, regVars, chans, waitq, drop, rch,
                   timeout, rerrs, sweepVars, loopVars, wireVars, nresets,
                   userVars, outVars, lockVars>>

(* CheckSuppressed with the drop map consulted for unregistered ids only.  *)
CheckSuppressedUnregistered ==
    /\ rpc = "checkdrop"
    /\ IF drop[rmsg.link] # NONE /\ read[rmsg.link] = NIL
       THEN rpc' = "read" /\ rmsg' = NoMsg /\ rat' = 0 /\ rtimer' = ReadTimeout
       ELSE rpc' = "lookup" /\ UNCHANGED <<rmsg, rat, rtimer>>
    /\ UNCHANGED <<newVars, sigVars, now, regVars, chans, waitq, drop, rch,
                   timeout, rerrs, sweepVars, loopVars, wireVars, nresets,
                   userVars, outVars, lockVars>>

(* Lines 118-124: the frame is discarded when its link id is in conn.drop. *)
CheckSuppressed ==
    /\ rpc = "checkdrop"
    /\ IF drop[rmsg.link] # NONE
       THEN rpc' = "read" /\ rmsg' = NoMsg /\ rat' = 0 /\ rtimer' = ReadTimeout
       ELSE rpc' = "lookup" /\ UNCHANGED <<rmsg, rat, rtimer>>
    /\ UNCHANGED <<newVars, sigVars, now, regVars, chans, waitq, drop, rch,
                   timeout, rerrs, sweepVars, loopVars, wireVars, nresets,
                   userVars,
                   outVars, lockVars>>

(* Lookup with the nil test inverted.                                     *)
LookupInverted ==
    /\ rpc = "lookup"
    /\ rch' = IF read[rmsg.link] # NIL THEN UNKNOWN ELSE read[rmsg.link]
    /\ rpc' = "select"
    /\ UNCHANGED <<newVars, sigVars, now, regVars, chans, waitq, drop, rmsg, rat,
                   timeout, rtimer, rerrs, sweepVars, loopVars, wireVars,
                   nresets, userVars,
                   outVars, lockVars>>

(* Lines 125-130: the registry lookup, with conn.unknownRead as fallback.  *)
Lookup ==
    /\ rpc = "lookup"
    /\ rch' = IF read[rmsg.link] = NIL THEN UNKNOWN ELSE read[rmsg.link]
    /\ rpc' = "select"
    /\ UNCHANGED <<newVars, sigVars, now, regVars, chans, waitq, drop, rmsg, rat,
                   timeout, rtimer, rerrs, sweepVars, loopVars, wireVars, nresets,
                   userVars,
                   outVars, lockVars>>

(* SelectSend with the message put at the front of the buffer.            *)
SelectSendFront ==
    /\ rpc = "select"
    /\ ~Full(rch)
    /\ chans' = [chans EXCEPT ![rch] = <<rmsg>> \o @]
    /\ rpc' = "read"
    /\ rmsg' = NoMsg
    /\ rat' = 0
    /\ rtimer' = ReadTimeout
    /\ UNCHANGED <<newVars, sigVars, now, regVars, waitq, drop, rch, timeout,
                   rerrs, sweepVars, loopVars, wireVars, nresets, userVars,
                   outVars, lockVars>>

(* Lines 131-132: the channel has room, the send goes through.             *)
SelectSend ==
    /\ rpc = "select"
    /\ ~Full(rch)
    /\ chans' = [chans EXCEPT ![rch] = Append(@, rmsg)]
    /\ rpc' = "read"
    /\ rmsg' = NoMsg
    /\ rat' = 0
    /\ rtimer' = ReadTimeout
    /\ UNCHANGED <<newVars, sigVars, now, regVars, waitq, drop, rch, timeout,
                   rerrs, sweepVars, loopVars, wireVars, nresets, userVars,
                   outVars, lockVars>>

(* Line 131: no case is ready; loopRead blocks in the select with the      *)
(* time.After timer running.                                               *)
SelectBlock ==
    /\ rpc = "select"
    /\ Full(rch)
    /\ ~ctxDone
    /\ waitq' = Append(waitq, [who |-> "loopRead", ch |-> rch, msg |-> rmsg])
    /\ rpc' = "blocked"
    /\ rtimer' = ReadTimeout
    /\ UNCHANGED <<newVars, sigVars, now, regVars, chans, drop, rmsg, rat, rch,
                   timeout, rerrs, sweepVars, loopVars, wireVars, nresets,
                   userVars,
                   outVars, lockVars>>

(* The select without its time.After case.                                 *)
SelectTimeoutNever ==
    /\ rpc = "blocked"
    /\ rtimer < 0
    /\ UNCHANGED vars

(* Lines 133-137: the timer fired while loopRead was still blocked.        *)
SelectTimeout ==
    /\ rpc = "blocked"
    /\ rtimer = 0
    /\ drop' = [drop EXCEPT ![rmsg.link] = now + DropWindow]
    /\ waitq' = Remove(waitq, ReaderAt)
    /\ rpc' = "read"
    /\ rmsg' = NoMsg
    /\ rat' = 0
    /\ rtimer' = ReadTimeout
    /\ UNCHANGED <<newVars, sigVars, now, regVars, chans, rch, timeout, rerrs,
                   sweepVars, loopVars, wireVars, nresets, userVars,
                   outVars, lockVars>>

(* Lines 138-139: the context is done.                                     *)
SelectDone ==
    /\ rpc \in {"select", "blocked"}
    /\ ctxDone
    /\ waitq' = IF rpc = "blocked" THEN Remove(waitq, ReaderAt) ELSE waitq
    /\ rpc' = "cancel"
    /\ UNCHANGED <<newVars, sigVars, now, regVars, chans, drop, rmsg, rat, rch,
                   timeout, rtimer, rerrs, sweepVars, loopVars, wireVars, nresets,
                   userVars,
                   outVars, lockVars>>

(* Line 96, deferred: conn.cancel().                                       *)
ReadCancel ==
    /\ rpc = "cancel"
    /\ ctxDone' = TRUE
    /\ rpc' = "close"
    /\ UNCHANGED <<newVars, closeCalls, now, regVars, chans, waitq, drop, rmsg, rat,
                   rch, timeout, rtimer, rerrs, sweepVars, loopVars, wireVars,
                   nresets, userVars,
                   outVars, lockVars>>

(* Lines 74-78, deferred at line 95: conn.close().                         *)
ReadClose ==
    /\ rpc = "close"
    /\ IF conn # "nil"
       THEN closeCalls' = closeCalls + 1 /\ conn' = "closed"
       ELSE UNCHANGED <<closeCalls, conn>>
    /\ rpc' = "done"
    /\ UNCHANGED <<npc, ctxDone, now, regVars, chans, waitq, drop, rmsg, rat, rch,
                   timeout, rtimer, rerrs, sweepVars, loopVars, wireVars, nresets,
                   userVars,
                   outVars, lockVars>>

----------------------------------------------------------------------------
(* loopWrite and keepalive: leaving on cancellation *)

(* Lines 152-153; the deferred conn.cancel() (line 147) finds the context  *)
(* already cancelled, the deferred conn.close() (line 146) follows.        *)
WriteDone ==
    /\ wpc = "select"
    /\ ctxDone
    /\ wpc' = "close"
    /\ UNCHANGED <<newVars, sigVars, now, regVars, chans, waitq, drop,
                   readVars, sweepVars, kpc, wireVars, nresets, userVars,
                   outVars, lockVars>>

WriteClose ==
    /\ wpc = "close"
    /\ IF conn # "nil"
       THEN closeCalls' = closeCalls + 1 /\ conn' = "closed"
       ELSE UNCHANGED <<closeCalls, conn>>
    /\ wpc' = "done"
    /\ UNCHANGED <<npc, ctxDone, now, regVars, chans, waitq, drop, readVars,
                   sweepVars, kpc, wireVars, nresets, userVars,
                   outVars, lockVars>>

(* Lines 174-175; the deferred conn.cancel() (line 168) finds the context  *)
(* already cancelled, the deferred conn.close() (line 167) follows.        *)
KeepaliveDone ==
    /\ kpc = "select"
    /\ ctxDone
    /\ kpc' = "close"
    /\ UNCHANGED <<newVars, sigVars, now, regVars, chans, waitq, drop,
                   readVars, sweepVars, wpc, wireVars, nresets, userVars,
                   outVars, lockVars>>

KeepaliveClose ==
    /\ kpc = "close"
    /\ IF conn # "nil"
       THEN closeCalls' = closeCalls + 1 /\ conn' = "closed"
       ELSE UNCHANGED <<closeCalls, conn>>
    /\ kpc' = "done"
    /\ UNCHANGED <<npc, ctxDone, now, regVars, chans, waitq, drop, readVars,
                   sweepVars, wpc, wireVars, nresets, userVars,
                   outVars, lockVars>>

----------------------------------------------------------------------------
(* loopWrite and keepalive: the outbound queue *)

(* Outbound enqueue: a producer puts a message, with whatever sender it    *)
(* set, on conn.write.                                                     *)
Enqueue(f, limit) ==
    /\ npc = "returned"
    /\ nout < limit
    /\ Len(write) < WriteCap
    /\ write' = Append(write, Out("data", f, nout + 1))
    /\ nout' = nout + 1
    /\ UNCHANGED <<newVars, sigVars, now, regVars, chans, waitq, drop, readVars,
                   sweepVars, loopVars, wireVars, nresets, userVars, wmsg, sent,
                   ktimer, lockVars>>

(* WriteTake without the assignment of line 155.                           *)
WriteTakeNoStamp ==
    /\ wpc = "select"
    /\ write # <<>>
    /\ wmsg' = Head(write)
    /\ write' = Tail(write)
    /\ wpc' = "write"
    /\ UNCHANGED <<newVars, sigVars, now, regVars, chans, waitq, drop, readVars,
                   sweepVars, kpc, wireVars, nresets, userVars, sent, nout,
                   ktimer, lockVars>>

(* Lines 150-155: a message is received from conn.write and its sender is  *)
(* set to conn.cfg.ID.  When the context is done as well, the select may   *)
(* still take this case.                                                   *)
WriteTake ==
    /\ wpc = "select"
    /\ write # <<>>
    /\ wmsg' = [Head(write) EXCEPT !.from = LocalID]
    /\ write' = Tail(write)
    /\ wpc' = "write"
    /\ UNCHANGED <<newVars, sigVars, now, regVars, chans, waitq, drop, readVars,
                   sweepVars, kpc, wireVars, nresets, userVars, sent, nout,
                   ktimer, lockVars>>

(* WriteMessage with a failed message put back on the queue.               *)
WriteMessageRequeue(ok) ==
    /\ wpc = "write"
    /\ ok => conn = "open"
    /\ sent' = Append(sent, [msg |-> wmsg, ok |-> ok])
    /\ write' = IF ok THEN write ELSE Append(write, wmsg)
    /\ wmsg' = NoOut
    /\ wpc' = "select"
    /\ UNCHANGED <<newVars, sigVars, now, regVars, chans, waitq, drop, readVars,
                   sweepVars, kpc, wireVars, nresets, userVars, nout,
                   ktimer, lockVars>>

(* Lines 156-161: conn.conn.WriteMessage(msg, WriteTimeout).  An error is  *)
(* logged and the loop goes on; a closed link takes no write.              *)
WriteMessage(ok) ==
    /\ wpc = "write"
    /\ ok => conn = "open"
    /\ sent' = Append(sent, [msg |-> wmsg, ok |-> ok])
    /\ wmsg' = NoOut
    /\ wpc' = "select"
    /\ UNCHANGED <<newVars, sigVars, now, regVars, chans, waitq, drop, readVars,
                   sweepVars, kpc, wireVars, nresets, userVars, write, nout,
                   ktimer, lockVars>>

(* Lines 145-147 and 155-156: the iteration panics; the deferred calls     *)
(* run, conn.cancel() first, and utils.Recover ends the panic.             *)
WritePanic ==
    /\ wpc = "write"
    /\ wmsg' = NoOut
    /\ wpc' = "cancel"
    /\ UNCHANGED <<newVars, sigVars, now, regVars, chans, waitq, drop, readVars,
                   sweepVars, kpc, wireVars, nresets, userVars, write, sent,
                   nout, ktimer, lockVars>>

(* Line 147, deferred: conn.cancel() of a loopWrite that did not leave on  *)
(* ctx.Done().                                                             *)
WriteCancel ==
    /\ wpc = "cancel"
    /\ ctxDone' = TRUE
    /\ wpc' = "close"
    /\ UNCHANGED <<newVars, closeCalls, now, regVars, chans, waitq, drop,
                   readVars, sweepVars, kpc, wireVars, nresets, userVars,
                   outVars, lockVars>>

(* Lines 169-171: the ticker fires.                                        *)
KeepaliveTick ==
    /\ kpc = "select"
    /\ ktimer = 0
    /\ kpc' = "send"
    /\ ktimer' = KeepaliveInterval
    /\ UNCHANGED <<newVars, sigVars, now, regVars, chans, waitq, drop, readVars,
                   sweepVars, wpc, wireVars, nresets, userVars, write, wmsg,
                   sent, nout, lockVars>>

(* Line 172: conn.SendKeepalive() puts a keepalive message on conn.write.  *)
SendKeepalive ==
    /\ kpc = "send"
    /\ Len(write) < WriteCap
    /\ write' = Append(write, Out("keepalive", LocalID, nout + 1))
    /\ nout' = nout + 1
    /\ kpc' = "select"
    /\ UNCHANGED <<newVars, sigVars, now, regVars, chans, waitq, drop, readVars,
                   sweepVars, wpc, wireVars, nresets, userVars, wmsg, sent,
                   ktimer, lockVars>>

----------------------------------------------------------------------------
(* checkDrop *)

(* Line 212: time.Sleep(time.Second) returns.                              *)
SweepWake ==
    /\ cdpc = "sleep"
    /\ ctimer = 0
    /\ cdpc' = "scan"
    /\ UNCHANGED <<newVars, sigVars, now, regVars, chans, waitq, drop,
                   readVars, ctimer, drops, loopVars, wireVars, nresets, userVars,
                   outVars, lockVars>>

(* SweepScan with Before in place of After at line 217.                  *)
SweepScanBefore ==
    /\ cdpc = "scan"
    /\ drops' = {k \in AllIds : drop[k] # NONE /\ now < drop[k]}
    /\ cdpc' = "delete"
    /\ UNCHANGED <<newVars, sigVars, now, regVars, chans, waitq, drop,
                   readVars, ctimer, loopVars, wireVars, nresets, userVars,
                   outVars, lockVars>>

(* SweepScan with every entry collected, expired or not.                  *)
SweepScanAll ==
    /\ cdpc = "scan"
    /\ drops' = {k \in AllIds : drop[k] # NONE}
    /\ cdpc' = "delete"
    /\ UNCHANGED <<newVars, sigVars, now, regVars, chans, waitq, drop,
                   readVars, ctimer, loopVars, wireVars, nresets, userVars,
                   outVars, lockVars>>

(* Lines 214-221: the ids whose expiry has passed, under the read lock.    *)
SweepScan ==
    /\ cdpc = "scan"
    /\ drops' = {k \in AllIds : drop[k] # NONE /\ now > drop[k]}
    /\ cdpc' = "delete"
    /\ UNCHANGED <<newVars, sigVars, now, regVars, chans, waitq, drop,
                   readVars, ctimer, loopVars, wireVars, nresets, userVars,
                   outVars, lockVars>>

(* Lines 223-227: the collected ids are deleted, under the write lock.     *)
SweepDelete ==
    /\ cdpc = "delete"
    /\ drop' = [k \in AllIds |-> IF k \in drops THEN NONE ELSE drop[k]]
    /\ drops' = {}
    /\ cdpc' = "sleep"
    /\ ctimer' = SweepInterval
    /\ UNCHANGED <<newVars, sigVars, now, regVars, chans, waitq, readVars,
                   loopVars, wireVars, nresets, userVars,
                   outVars, lockVars>>

----------------------------------------------------------------------------
(* The callers of the connection *)

(* AddLink without the presence test of line 184.                         *)
AddLinkAlways(id, limit) ==
    /\ npc = "returned"
    /\ addCalls[id] < limit
    /\ addCalls' = [addCalls EXCEPT ![id] = @ + 1]
    /\ chans' = Append(chans, <<>>)
    /\ read' = [read EXCEPT ![id] = Len(chans) + 1]
    /\ UNCHANGED <<newVars, sigVars, now, waitq, drop, readVars, sweepVars,
                   loopVars, wireVars, nresets, userVars,
                   outVars, lockVars>>

(* Lines 181-188.                                                          *)
AddLink(id, limit) ==
    /\ npc = "returned"
    /\ addCalls[id] < limit
    /\ addCalls' = [addCalls EXCEPT ![id] = @ + 1]
    /\ IF read[id] = NIL
       THEN /\ chans' = Append(chans, <<>>)
            /\ read' = [read EXCEPT ![id] = Len(chans) + 1]
       ELSE UNCHANGED <<chans, read>>
    /\ UNCHANGED <<newVars, sigVars, now, waitq, drop, readVars, sweepVars,
                   loopVars, wireVars, nresets, userVars,
                   outVars, lockVars>>

(* Lines 199-203.                                                          *)
ChanRead(id) == read[id]

(* Lines 206-208.                                                          *)
ChanUnknown == UNKNOWN

(* Lines 191-196: ch <- msg on the channel found in the registry.  A send  *)
(* on a nil channel, or on a full one, blocks.                             *)
Reset(id, t, limit) ==
    /\ npc = "returned"
    /\ nresets < limit
    /\ nresets' = nresets + 1
    /\ LET ch == read[id]
           msg == Local(t, id, nresets + 1)
       IN IF ch # NIL /\ ~Full(ch)
          THEN /\ chans' = [chans EXCEPT ![ch] = Append(@, msg)]
               /\ UNCHANGED waitq
          ELSE /\ waitq' = Append(waitq, [who |-> "Reset", ch |-> ch, msg |-> msg])
               /\ UNCHANGED chans
    /\ UNCHANGED <<newVars, sigVars, now, regVars, drop, readVars, sweepVars,
                   loopVars, wireVars, userVars,
                   outVars, lockVars>>

(* A receive from channel c: the head of the buffer is taken; when senders *)
(* are blocked on c the first of them completes its send in the same step, *)
(* and if that sender is loopRead it leaves the select (line 132).         *)
ChanRecv(c) ==
    /\ c # NIL
    /\ Len(chans[c]) > 0
    /\ IF Waiting(c) = {}
       THEN /\ chans' = [chans EXCEPT ![c] = Tail(@)]
            /\ UNCHANGED <<waitq, readVars>>
       ELSE LET i == FirstWaiting(c) IN
            /\ chans' = [chans EXCEPT ![c] = Append(Tail(@), waitq[i].msg)]
            /\ waitq' = Remove(waitq, i)
            /\ IF waitq[i].who = "loopRead"
               THEN /\ rpc' = "read"
                    /\ rmsg' = NoMsg
                    /\ rat' = 0
                    /\ rtimer' = ReadTimeout
                    /\ UNCHANGED <<rch, timeout, rerrs>>
               ELSE UNCHANGED readVars

(* The consumer of a link: <-conn.ChanRead(id).                            *)
Recv(id) ==
    /\ npc = "returned"
    /\ ChanRecv(ChanRead(id))
    /\ got' = [got EXCEPT ![id] = Append(@, Head(chans[ChanRead(id)]))]
    /\ UNCHANGED <<newVars, sigVars, now, regVars, drop, sweepVars, loopVars,
                   wireVars, nresets, gotUnknown,
                   outVars, lockVars>>

(* The consumer of the unknown channel: <-conn.ChanUnknown().              *)
RecvUnknown ==
    /\ npc = "returned"
    /\ ChanRecv(ChanUnknown)
    /\ gotUnknown' = Append(gotUnknown, Head(chans[ChanUnknown]))
    /\ UNCHANGED <<newVars, sigVars, now, regVars, drop, sweepVars, loopVars,
                   wireVars, nresets, got,
                   outVars, lockVars>>

----------------------------------------------------------------------------
(* The two locks, step by step.  In the steps above a section under a lock *)
(* is one step; here taking the lock, the section and the release are     *)
(* steps of their own, and so is the one access made outside a lock.       *)

RLocked(L, t) == [L EXCEPT !.r = @ \cup {t}]

RUnlocked(L, t) == [L EXCEPT !.r = @ \ {t}]

Locked(L, t) == [L EXCEPT !.w = t]

Released(L) == [L EXCEPT !.w = ""]

(* RLock returns when no writer holds the lock, Lock when nobody does.     *)
CanRLock(L) == L.w = ""

CanLock(L) == L.w = "" /\ L.r = {}

Holds(L, t) == L.w = t \/ t \in L.r

(* Line 119: conn.lockDrop.RLock().                                        *)
DropRLock ==
    /\ rpc = "checkdrop"
    /\ CanRLock(lockDrop)
    /\ lockDrop' = RLocked(lockDrop, "loopRead")
    /\ rpc' = "dropread"
    /\ UNCHANGED <<newVars, sigVars, now, regVars, chans, waitq, drop, rmsg, rat,
                   rch, timeout, rtimer, rerrs, sweepVars, loopVars, wireVars,
                   nresets, userVars, outVars, lockReg, upc>>

(* Lines 120-124: the lookup in conn.drop, RUnlock, and the branch.        *)
DropRead ==
    /\ rpc = "dropread"
    /\ lockDrop' = RUnlocked(lockDrop, "loopRead")
    /\ IF drop[rmsg.link] # NONE
       THEN rpc' = "read" /\ rmsg' = NoMsg /\ rat' = 0 /\ rtimer' = ReadTimeout
       ELSE rpc' = "lookup" /\ UNCHANGED <<rmsg, rat, rtimer>>
    /\ UNCHANGED <<newVars, sigVars, now, regVars, chans, waitq, drop, rch,
                   timeout, rerrs, sweepVars, loopVars, wireVars, nresets,
                   userVars, outVars, lockReg, upc>>

(* Line 125: conn.RLock().                                                 *)
RegRLock ==
    /\ rpc = "lookup"
    /\ CanRLock(lockReg)
    /\ lockReg' = RLocked(lockReg, "loopRead")
    /\ rpc' = "regread"
    /\ UNCHANGED <<newVars, sigVars, now, regVars, chans, waitq, drop, rmsg, rat,
                   rch, timeout, rtimer, rerrs, sweepVars, loopVars, wireVars,
                   nresets, userVars, outVars, lockDrop, upc>>

(* Lines 126-130: the lookup in conn.read, RUnlock, and the fallback.      *)
RegRead ==
    /\ rpc = "regread"
    /\ lockReg' = RUnlocked(lockReg, "loopRead")
    /\ rch' = IF read[rmsg.link] = NIL THEN UNKNOWN ELSE read[rmsg.link]
    /\ rpc' = "select"
    /\ UNCHANGED <<newVars, sigVars, now, regVars, chans, waitq, drop, rmsg, rat,
                   timeout, rtimer, rerrs, sweepVars, loopVars, wireVars, nresets,
                   userVars, outVars, lockDrop, upc>>

(* Lines 133-134: the timer fired while loopRead was still blocked; the    *)
(* select is left by its time.After case.                                  *)
TimerFired ==
    /\ rpc = "blocked"
    /\ rtimer = 0
    /\ waitq' = Remove(waitq, ReaderAt)
    /\ rpc' = "droplock"
    /\ UNCHANGED <<newVars, sigVars, now, regVars, chans, drop, rmsg, rat, rch,
                   timeout, rtimer, rerrs, sweepVars, loopVars, wireVars, nresets,
                   userVars, outVars, lockVars>>

(* Line 135: conn.lockDrop.Lock().                                         *)
DropLock ==
    /\ rpc = "droplock"
    /\ CanLock(lockDrop)
    /\ lockDrop' = Locked(lockDrop, "loopRead")
    /\ rpc' = "dropwrite"
    /\ UNCHANGED <<newVars, sigVars, now, regVars, chans, waitq, drop, rmsg, rat,
                   rch, timeout, rtimer, rerrs, sweepVars, loopVars, wireVars,
                   nresets, userVars, outVars, lockReg, upc>>

(* Lines 136-137: the write of conn.drop, and Unlock.                      *)
DropWrite ==
    /\ rpc = "dropwrite"
    /\ drop' = [drop EXCEPT ![rmsg.link] = now + DropWindow]
    /\ lockDrop' = Released(lockDrop)
    /\ rpc' = "read"
    /\ rmsg' = NoMsg
    /\ rat' = 0
    /\ rtimer' = ReadTimeout
    /\ UNCHANGED <<newVars, sigVars, now, regVars, chans, waitq, rch, timeout,
                   rerrs, sweepVars, loopVars, wireVars, nresets, userVars,
                   outVars, lockReg, upc>>

(* Line 214: len(conn.drop) is read, with no lock taken; the value only    *)
(* sizes the slice drops.                                                  *)
SweepLen ==
    /\ cdpc = "scan"
    /\ cdpc' = "rlock"
    /\ UNCHANGED <<newVars, sigVars, now, regVars, chans, waitq, drop, readVars,
                   ctimer, drops, loopVars, wireVars, nresets, userVars,
                   outVars, lockVars>>

(* Line 215: conn.lockDrop.RLock().                                        *)
SweepRLock ==
    /\ cdpc = "rlock"
    /\ CanRLock(lockDrop)
    /\ lockDrop' = RLocked(lockDrop, "checkDrop")
    /\ cdpc' = "range"
    /\ UNCHANGED <<newVars, sigVars, now, regVars, chans, waitq, drop, readVars,
                   ctimer, drops, loopVars, wireVars, nresets, userVars,
                   outVars, lockReg, upc>>

(* Lines 216-221: the range over conn.drop, and RUnlock.                   *)
SweepRange ==
    /\ cdpc = "range"
    /\ drops' = {k \in AllIds : drop[k] # NONE /\ now > drop[k]}
    /\ lockDrop' = RUnlocked(lockDrop, "checkDrop")
    /\ cdpc' = "lock"
    /\ UNCHANGED <<newVars, sigVars, now, regVars, chans, waitq, drop, readVars,
                   ctimer, loopVars, wireVars, nresets, userVars, outVars,
                   lockReg, upc>>

(* Line 223: conn.lockDrop.Lock().                                         *)
SweepLock ==
    /\ cdpc = "lock"
    /\ CanLock(lockDrop)
    /\ lockDrop' = Locked(lockDrop, "checkDrop")
    /\ cdpc' = "deleting"
    /\ UNCHANGED <<newVars, sigVars, now, regVars, chans, waitq, drop, readVars,
                   ctimer, drops, loopVars, wireVars, nresets, userVars,
                   outVars, lockReg, upc>>

(* Lines 224-227: the deletes, and Unlock.                                 *)
SweepDeleteUnlock ==
    /\ cdpc = "deleting"
    /\ drop' = [k \in AllIds |-> IF k \in drops THEN NONE ELSE drop[k]]
    /\ drops' = {}
    /\ lockDrop' = Released(lockDrop)
    /\ cdpc' = "sleep"
    /\ ctimer' = SweepInterval
    /\ UNCHANGED <<newVars, sigVars, now, regVars, chans, waitq, readVars,
                   loopVars, wireVars, nresets, userVars, outVars, lockReg, upc>>

(* Line 183: conn.Lock() in AddLink.                                       *)
AddLinkLock(id, limit) ==
    /\ npc = "returned"
    /\ upc["AddLink"].pc = "idle"
    /\ addCalls[id] < limit
    /\ CanLock(lockReg)
    /\ lockReg' = Locked(lockReg, "AddLink")
    /\ upc' = [upc EXCEPT !["AddLink"] = [pc |-> "locked", id |-> id, ch |-> NIL]]
    /\ addCalls' = [addCalls EXCEPT ![id] = @ + 1]
    /\ UNCHANGED <<newVars, sigVars, now, read, chans, waitq, drop, readVars,
                   sweepVars, loopVars, wireVars, nresets, userVars, outVars,
                   lockDrop>>

(* Lines 184-187: the channel is made when the id is absent, and Unlock.   *)
AddLinkStore ==
    /\ upc["AddLink"].pc = "locked"
    /\ LET id == upc["AddLink"].id
       IN IF read[id] = NIL
          THEN /\ chans' = Append(chans, <<>>)
               /\ read' = [read EXCEPT ![id] = Len(chans) + 1]
          ELSE UNCHANGED <<chans, read>>
    /\ lockReg' = Released(lockReg)
    /\ upc' = [upc EXCEPT !["AddLink"] = Idle]
    /\ UNCHANGED <<newVars, sigVars, now, addCalls, waitq, drop, readVars,
                   sweepVars, loopVars, wireVars, nresets, userVars, outVars,
                   lockDrop>>

(* Line 192: conn.RLock() in Reset.                                        *)
ResetRLock(id, limit) ==
    /\ npc = "returned"
    /\ upc["Reset"].pc = "idle"
    /\ nresets < limit
    /\ CanRLock(lockReg)
    /\ lockReg' = RLocked(lockReg, "Reset")
    /\ upc' = [upc EXCEPT !["Reset"] = [pc |-> "rlocked", id |-> id, ch |-> NIL]]
    /\ UNCHANGED <<newVars, sigVars, now, regVars, chans, waitq, drop, readVars,
                   sweepVars, loopVars, wireVars, nresets, userVars, outVars,
                   lockDrop>>

(* ResetLoad with the RUnlock deferred to the return of Reset.             *)
ResetLoadDeferUnlock ==
    /\ upc["Reset"].pc = "rlocked"
    /\ upc' = [upc EXCEPT !["Reset"] =
                  [pc |-> "send", id |-> @.id, ch |-> read[@.id]]]
    /\ UNCHANGED <<newVars, sigVars, now, regVars, chans, waitq, drop, readVars,
                   sweepVars, loopVars, wireVars, nresets, userVars, outVars,
                   lockReg, lockDrop>>

(* Lines 193-194: ch := conn.read[id], and RUnlock.                        *)
ResetLoad ==
    /\ upc["Reset"].pc = "rlocked"
    /\ upc' = [upc EXCEPT !["Reset"] =
                  [pc |-> "send", id |-> @.id, ch |-> read[@.id]]]
    /\ lockReg' = RUnlocked(lockReg, "Reset")
    /\ UNCHANGED <<newVars, sigVars, now, regVars, chans, waitq, drop, readVars,
                   sweepVars, loopVars, wireVars, nresets, userVars, outVars,
                   lockDrop>>

(* Line 195: ch <- msg.  The send goes through when the channel has room;  *)
(* on a full channel, or a nil one, the caller blocks.                     *)
ResetSend(t) ==
    /\ upc["Reset"].pc = "send"
    /\ nresets' = nresets + 1
    /\ LET ch == upc["Reset"].ch
           msg == Local(t, upc["Reset"].id, nresets + 1)
       IN IF ch # NIL /\ ~Full(ch)
          THEN /\ chans' = [chans EXCEPT ![ch] = Append(@, msg)]
               /\ upc' = [upc EXCEPT !["Reset"] = Idle]
               /\ UNCHANGED waitq
          ELSE /\ waitq' = Append(waitq, [who |-> "Reset", ch |-> ch, msg |-> msg])
               /\ upc' = [upc EXCEPT !["Reset"].pc = "blocked"]
               /\ UNCHANGED chans
    /\ UNCHANGED <<newVars, sigVars, now, regVars, drop, readVars, sweepVars,
                   loopVars, wireVars, userVars, outVars, lockReg, lockDrop>>

(* Line 200: conn.RLock() in ChanRead.                                     *)
ChanReadRLock(id) ==
    /\ npc = "returned"
    /\ upc["ChanRead"].pc = "idle"
    /\ CanRLock(lockReg)
    /\ lockReg' = RLocked(lockReg, "ChanRead")
    /\ upc' = [upc EXCEPT !["ChanRead"] = [pc |-> "rlocked", id |-> id, ch |-> NIL]]
    /\ UNCHANGED <<newVars, sigVars, now, regVars, chans, waitq, drop, readVars,
                   sweepVars, loopVars, wireVars, nresets, userVars, outVars,
                   lockDrop>>

(* Lines 201-202: conn.read[id] is returned, and the deferred RUnlock.     *)
ChanReadReturn ==
    /\ upc["ChanRead"].pc = "rlocked"
    /\ lockReg' = RUnlocked(lockReg, "ChanRead")
    /\ upc' = [upc EXCEPT !["ChanRead"] = Idle]
    /\ UNCHANGED <<newVars, sigVars, now, regVars, chans, waitq, drop, readVars,
                   sweepVars, loopVars, wireVars, nresets, userVars, outVars,
                   lockDrop>>

(* A second passes beyond the horizon of the model: the timers run on and  *)
(* the clock reading is kept.  Only an entry of the drop map is compared   *)
(* with the clock, so this step is taken with the map empty.               *)
TickPast(limit) ==
    /\ npc = "returned"
    /\ now = limit
    /\ \A l \in AllIds : drop[l] = NONE
    /\ rtimer' = IF rtimer > 0 THEN rtimer - 1 ELSE 0
    /\ ctimer' = IF ctimer > 0 THEN ctimer - 1 ELSE 0
    /\ ktimer' = IF ktimer > 0 THEN ktimer - 1 ELSE 0
    /\ UNCHANGED <<newVars, sigVars, now, regVars, chans, waitq, drop, rpc, rmsg,
                   rat, rch, timeout, rerrs, cdpc, drops, loopVars, wireVars,
                   nresets, userVars, write, wmsg, sent, nout, lockVars>>

(* A second passes.                                                        *)
Tick(limit) ==
    /\ npc = "returned"
    /\ now < limit
    /\ now' = now + 1
    /\ rtimer' = IF rtimer > 0 THEN rtimer - 1 ELSE 0
    /\ ctimer' = IF ctimer > 0 THEN ctimer - 1 ELSE 0
    /\ ktimer' = IF ktimer > 0 THEN ktimer - 1 ELSE 0
    /\ UNCHANGED <<newVars, sigVars, regVars, chans, waitq, drop, rpc, rmsg, rat,
                   rch, timeout, rerrs, cdpc, drops, loopVars, wireVars,
                   nresets, userVars, write, wmsg, sent, nout, lockVars>>

----------------------------------------------------------------------------
New ==
    \/ \E ok \in BOOLEAN : Dial(ok)
    \/ \E r \in {"ok", "error", "timeout"} : Handshake(r)
    \/ Spawn

LoopRead ==
    \/ \E m \in NextFrames : ReadOk(m, MaxFrames)
    \/ ReadTimeoutErr
    \/ ReadOtherErr(MaxReadErrs)
    \/ CheckSuppressed
    \/ Lookup
    \/ SelectSend
    \/ SelectBlock
    \/ SelectTimeout
    \/ SelectDone
    \/ ReadClosedErr
    \/ ReadErrLogged
    \/ ReadCancel
    \/ ReadClose

LoopWrite ==
    \/ WriteTake
    \/ \E ok \in BOOLEAN : WriteMessage(ok)
    \/ WritePanic
    \/ WriteCancel

Keepalive ==
    \/ KeepaliveTick
    \/ SendKeepalive

Teardown ==
    \/ WriteDone
    \/ WriteClose
    \/ KeepaliveDone
    \/ KeepaliveClose

CheckDrop ==
    \/ SweepWake
    \/ SweepScan
    \/ SweepDelete

Callers ==
    \/ \E id \in LinkIds : AddLink(id, MaxAddLinks)
    \/ \E id \in LinkIds, t \in ResetTypes : Reset(id, t, MaxResets)
    \/ \E id \in LinkIds : Recv(id)
    \/ RecvUnknown

Next ==
    \/ New
    \/ LoopRead
    \/ LoopWrite
    \/ Keepalive
    \/ Teardown
    \/ CheckDrop
    \/ Callers
    \/ \E f \in Senders : Enqueue(f, MaxOut)
    \/ Tick(MaxTime)

Spec == Init /\ [][Next]_vars

----------------------------------------------------------------------------
(* Routing: the connection during its first second, with a peer that sends *)
(* at most RouteFrames frames.  No timer fires and no channel fills, so    *)
(* the timeout, cancellation and sweep steps are never enabled.            *)

RouteFrames == 3

RouteNext ==
    \/ New
    \/ \E m \in NextFrames : ReadOk(m, RouteFrames)
    \/ CheckSuppressed
    \/ Lookup
    \/ SelectSend
    \/ Callers

SpecRoute == Init /\ [][RouteNext]_vars

----------------------------------------------------------------------------
(* Flood: link "A" is registered and never drained, and the peer then     *)
(* sends it up to FloodFrames frames, over FloodTime seconds.              *)

FloodFrames == 12
FloodTime == 62

FloodNext ==
    \/ New
    \/ AddLink("A", 1)
    \/ \E m \in NextFrames :
          /\ m.link = "A"
          /\ read["A"] # NIL
          /\ ReadOk(m, FloodFrames)
    \/ ReadTimeoutErr
    \/ CheckSuppressed
    \/ Lookup
    \/ SelectSend
    \/ SelectBlock
    \/ SelectTimeout
    \/ ReadCancel
    \/ ReadClose
    \/ Teardown
    \/ CheckDrop
    \/ Tick(FloodTime)

SpecFlood == Init /\ [][FloodNext]_vars

----------------------------------------------------------------------------
(* Silence: a peer that sends at most DeadFrames frames, of any kind, over *)
(* DeadTime seconds, and a link whose reads may fail.                      *)

DeadFrames == 2
DeadTime == 61

DeadNext ==
    \/ New
    \/ \E m \in NextFrames : ReadOk(m, DeadFrames)
    \/ ReadTimeoutErr
    \/ ReadOtherErr(MaxReadErrs)
    \/ CheckSuppressed
    \/ Lookup
    \/ SelectSend
    \/ ReadCancel
    \/ ReadClose
    \/ Teardown
    \/ CheckDrop
    \/ Tick(DeadTime)

SpecDead == Init /\ [][DeadNext]_vars

----------------------------------------------------------------------------
(* Cancellation: a connection whose peer sends at most CancelFrames        *)
(* frames, with at most CancelOut outbound messages, where an iteration of *)
(* loopWrite may panic.  No channel fills, so the drop map stays empty and *)
(* time runs on past CancelTime.  Every loop that can take a step          *)
(* eventually takes one, and time passes; nothing obliges the peer to      *)
(* send, a producer to enqueue or an iteration to panic.                   *)

CancelFrames == 1
CancelOut == 1
CancelTime == 2

ReadSteps ==
    \/ ReadTimeoutErr
    \/ ReadClosedErr
    \/ ReadErrLogged
    \/ CheckSuppressed
    \/ Lookup
    \/ SelectSend
    \/ SelectDone
    \/ ReadCancel
    \/ ReadClose

WriteSteps ==
    \/ WriteTake
    \/ \E ok \in BOOLEAN : WriteMessage(ok)
    \/ WriteCancel
    \/ WriteDone
    \/ WriteClose

KeepaliveSteps ==
    \/ KeepaliveDone
    \/ KeepaliveClose

Clock(limit) ==
    \/ Tick(limit)
    \/ TickPast(limit)

CancelNext ==
    \/ New
    \/ \E m \in NextFrames : ReadOk(m, CancelFrames)
    \/ ReadSteps
    \/ \E f \in Senders : Enqueue(f, CancelOut)
    \/ WriteSteps
    \/ WritePanic
    \/ KeepaliveSteps
    \/ CheckDrop
    \/ Clock(CancelTime)

SpecCancel ==
    /\ Init
    /\ [][CancelNext]_vars
    /\ WF_vars(ReadSteps)
    /\ WF_vars(WriteSteps)
    /\ WF_vars(KeepaliveSteps)
    /\ WF_vars(CheckDrop)
    /\ WF_vars(Clock(CancelTime))

----------------------------------------------------------------------------
(* Outbound: producers put up to WriteOut messages on conn.write, under    *)
(* either sender, the ticker of keepalive fires, and writes may fail,      *)
(* over WriteTime seconds.  Nothing cancels the context.                   *)

WriteOut == 3
WriteTime == 11

WriteNext ==
    \/ New
    \/ \E f \in Senders : Enqueue(f, WriteOut)
    \/ WriteTake
    \/ \E ok \in BOOLEAN : WriteMessage(ok)
    \/ KeepaliveTick
    \/ SendKeepalive
    \/ Tick(WriteTime)

SpecWrite == Init /\ [][WriteNext]_vars

----------------------------------------------------------------------------
(* Stall: links "A" and "B" are registered, nobody drains "A", the         *)
(* consumer of "B" may receive, and the peer sends up to StallFrames data  *)
(* frames of either link, over StallTime seconds.  loopRead and checkDrop  *)
(* take the steps they can take, and time passes up to StallTime; nothing  *)
(* obliges the peer to send or the consumer of "B" to receive.             *)

StallFrames == 12
StallTime == 2

StallSteps ==
    \/ ReadTimeoutErr
    \/ CheckSuppressed
    \/ Lookup
    \/ SelectSend
    \/ SelectBlock
    \/ SelectTimeout

StallNext ==
    \/ New
    \/ AddLink("A", 1)
    \/ read["A"] # NIL /\ AddLink("B", 1)
    \/ \E m \in NextFrames :
          /\ m.type = "data"
          /\ read["B"] # NIL
          /\ ReadOk(m, StallFrames)
    \/ StallSteps
    \/ Recv("B")
    \/ CheckDrop
    \/ Tick(StallTime)

SpecStall ==
    /\ Init
    /\ [][StallNext]_vars
    /\ WF_vars(StallSteps)
    /\ WF_vars(CheckDrop)
    /\ WF_vars(Tick(StallTime))

----------------------------------------------------------------------------
(* Burst: "B" is registered and never drained, and the peer sends it one   *)
(* frame more than its channel holds, so that "B" gets an entry.  The peer *)
(* then sends a burst of frames of "A", which is not registered, that      *)
(* fills the unknown channel, which nobody drains; the frame after the     *)
(* last that fits times out.  "A" is registered right after that, and the  *)
(* peer sends up to BurstExtra more frames, of "A" or "B".  The clock      *)
(* moves while loopRead is blocked and after the burst, up to BurstTime.   *)

BurstExtra == 2
BurstTime == 3

BurstLen == (LinkCap + 1) + (UnknownCap + 1)

BurstNext ==
    \/ New
    \/ AddLink("B", 1)
    \/ /\ read["B"] # NIL
       /\ ReadOk(Frame("data", "B", nframes["B"] + 1), LinkCap + 1)
    \/ /\ drop["B"] # NONE
       /\ ReadOk(Frame("data", "A", nframes["A"] + 1), BurstLen)
    \/ \E m \in NextFrames :
          /\ m.type = "data"
          /\ nread >= BurstLen
          /\ ReadOk(m, BurstLen + BurstExtra)
    \/ ReadTimeoutErr
    \/ CheckSuppressed
    \/ Lookup
    \/ SelectSend
    \/ SelectBlock
    \/ SelectTimeout
    \/ CheckDrop
    \/ /\ drop["A"] # NONE
       /\ nframes["A"] = UnknownCap + 1
       /\ AddLink("A", 1)
    \/ /\ rpc = "blocked" \/ nread >= BurstLen
       /\ Tick(BurstTime)

SpecBurst == Init /\ [][BurstNext]_vars

----------------------------------------------------------------------------
(* Locks: the steps of loopRead, checkDrop, AddLink, Reset and ChanRead    *)
(* lock by lock.  "A" is registered and never drained, the peer sends it   *)
(* up to LockFrames frames, and callers reset "A" or the unregistered "B", *)
(* over LockTime seconds.                                                  *)

LockFrames == 11
LockTime == 2

LockNext ==
    \/ New
    \/ AddLinkLock("A", MaxAddLinks)
    \/ AddLinkStore
    \/ \E id \in LinkIds : ResetRLock(id, MaxResets)
    \/ ResetLoad
    \/ \E t \in ResetTypes : ResetSend(t)
    \/ ChanReadRLock("A")
    \/ ChanReadReturn
    \/ /\ read["A"] # NIL
       /\ ReadOk(Frame("data", "A", nframes["A"] + 1), LockFrames)
    \/ ReadTimeoutErr
    \/ DropRLock
    \/ DropRead
    \/ RegRLock
    \/ RegRead
    \/ SelectSend
    \/ SelectBlock
    \/ TimerFired
    \/ DropLock
    \/ DropWrite
    \/ SweepWake
    \/ SweepLen
    \/ SweepRLock
    \/ SweepRange
    \/ SweepLock
    \/ SweepDeleteUnlock
    \/ Tick(LockTime)

SpecLocks == Init /\ [][LockNext]_vars

----------------------------------------------------------------------------
(* Properties *)

(* The frames of link id among the messages of q, in the order of q.       *)
WireOf(q, id) == SelectSeq(q, LAMBDA m : m.src = "wire" /\ m.link = id)

Increasing(q) == \A i, j \in 1..Len(q) : i < j => q[i].n < q[j].n

(* What loopRead is about to send on channel c, if anything.               *)
InHand(c) == IF rpc \in {"select", "blocked"} /\ rch = c THEN <<rmsg>> ELSE <<>>

Buffered(c) == {chans[c][i] : i \in 1..Len(chans[c])}

(* C1: for a registered link, the frames its consumer has received, then   *)
(* those buffered in its channel, then the one loopRead is sending, are in *)
(* the order they were read off the physical link.                         *)
C1_PerLinkOrder ==
    \A id \in LinkIds :
        read[id] # NIL =>
            Increasing(WireOf(got[id] \o chans[read[id]] \o InHand(read[id]), id))

(* C1 witness: a consumer has received two frames of its link.             *)
C1_Witness ==
    \E id \in LinkIds : Len(WireOf(got[id], id)) >= 2

(* C2: a frame whose link id has no registry entry when loopRead looks it  *)
(* up goes to the unknown channel, and a send on the unknown channel ends  *)
(* with the frame appended to it and every other channel untouched, unless *)
(* the unknown channel was full when the timer fired or the context is     *)
(* cancelled.                                                              *)
C2_UnknownRouting ==
    /\ [][(rpc = "lookup" /\ rpc' # "lookup" /\ read[rmsg.link] = NIL)
              => rch' = ChanUnknown]_vars
    /\ [][(rpc \in {"select", "blocked"} /\ rch = ChanUnknown
                /\ rpc' \notin {"select", "blocked"})
              => \/ /\ chans'[ChanUnknown] = Append(chans[ChanUnknown], rmsg)
                    /\ \A c \in 2..Len(chans) : chans'[c] = chans[c]
                 \/ rpc = "blocked" /\ Full(ChanUnknown) /\ rtimer = 0
                 \/ ctxDone]_vars

(* C2 witness: the unknown channel holds a frame of a link id that was     *)
(* registered only after loopRead had looked it up.                        *)
C2_Witness ==
    \E m \in Buffered(ChanUnknown) :
        m.src = "wire" /\ read[m.link] # NIL /\ chans[read[m.link]] = <<>>

KeepaliveRead(m) == m.src = "wire" /\ m.type = "keepalive"

(* C6: no channel, no consumer and no blocked sender holds a keepalive     *)
(* frame read by loopRead, loopRead never carries one past the type check, *)
(* and the drop map has no entry under a keepalive's link id.              *)
C6_KeepaliveNotRouted ==
    /\ \A c \in 1..Len(chans) : \A m \in Buffered(c) : ~KeepaliveRead(m)
    /\ \A id \in LinkIds : \A i \in 1..Len(got[id]) : ~KeepaliveRead(got[id][i])
    /\ \A i \in 1..Len(gotUnknown) : ~KeepaliveRead(gotUnknown[i])
    /\ \A i \in 1..Len(waitq) : ~KeepaliveRead(waitq[i].msg)
    /\ ~KeepaliveRead(rmsg)
    /\ drop[NoLink] = NONE

(* C6 witness: keepalive frames were read while data frames were routed.   *)
C6_Witness ==
    /\ nframes[NoLink] >= 2
    /\ Len(gotUnknown) >= 1

(* C7 as claimed: the message of the latest Reset held by a link's channel *)
(* is the next item its consumer reads.                                    *)
C7_ResetIsNext ==
    \A id \in LinkIds :
        read[id] # NIL =>
            LET q == chans[read[id]]
                locals == {i \in 1..Len(q) : q[i].src = "local"}
            IN locals # {} =>
                   \E i \in locals : i = 1 /\ \A j \in locals : q[j].n <= q[i].n

(* C9: when the dial or the handshake write failed no loop is started and  *)
(* no link is kept, a failed New stays failed, and a loop runs only after  *)
(* the handshake write succeeded and New returned.                         *)
LoopsIdle == rpc = "idle" /\ wpc = "idle" /\ kpc = "idle" /\ cdpc = "idle"

C9_NoLoopsOnFailure ==
    /\ npc = "failed" => LoopsIdle /\ conn = "nil"
    /\ npc \in {"dial", "handshake", "spawn"} => LoopsIdle
    /\ ~LoopsIdle => npc = "returned" /\ conn # "nil"

(* C9 witness: the handshake write failed on its 5 second timeout.         *)
C9_Witness ==
    npc = "failed" /\ now = HandshakeTimeout

(* C10: a registry entry, once made, is never removed or replaced, an      *)
(* AddLink of a registered id changes neither the registry nor any         *)
(* channel, no two link ids share a channel, and the channel on which      *)
(* loopRead or a blocked Reset sends a registered link's message is the    *)
(* one ChanRead returns for that link.                                     *)
C10_RegistryStable ==
    /\ [][\A id \in LinkIds : read[id] # NIL => read'[id] = read[id]]_vars
    /\ [][\A id \in LinkIds :
              (addCalls'[id] # addCalls[id] /\ read[id] # NIL)
                  => read' = read /\ chans' = chans]_vars
    /\ [](\A id, other \in LinkIds :
              (read[id] # NIL /\ other # id) => read[other] # read[id])
    /\ []((rpc \in {"select", "blocked"} /\ rch # ChanUnknown)
              => rch = ChanRead(rmsg.link))
    /\ [](\A i \in 1..Len(waitq) :
              (waitq[i].who = "Reset" /\ waitq[i].ch # NIL)
                  => waitq[i].ch = ChanRead(waitq[i].msg.link))
    /\ [](\A c \in 2..Len(chans) : \A m \in Buffered(c) : ChanRead(m.link) = c)

(* C10 witness: AddLink was called again for a link whose channel holds a  *)
(* message.                                                                *)
C10_Witness ==
    \E id \in LinkIds :
        addCalls[id] >= 2 /\ read[id] # NIL /\ Len(chans[read[id]]) >= 1

----------------------------------------------------------------------------
(* Properties of the drop map *)

(* C3: an entry is made only when loopRead's blocked send timed out, with  *)
(* expiry = the time of that failure + 60 seconds; while the entry is      *)
(* present loopRead attempts no send of a frame of that link id: the frame *)
(* is discarded at the drop check with every channel untouched; and an     *)
(* entry that stays in the map keeps its expiry.                           *)
C3_Suppression ==
    /\ [][\A l \in AllIds :
              (drop[l] = NONE /\ drop'[l] # NONE)
                  => /\ rpc = "blocked" /\ rtimer = 0 /\ rmsg.link = l
                     /\ drop'[l] = now + DropWindow]_vars
    /\ [](rpc \in {"lookup", "select", "blocked"} => drop[rmsg.link] = NONE)
    /\ [][(rpc = "checkdrop" /\ rpc' # "checkdrop" /\ drop[rmsg.link] # NONE)
              => rpc' = "read" /\ chans' = chans /\ waitq' = waitq
                    /\ drop' = drop]_vars
    /\ [][\A l \in AllIds :
              (drop[l] # NONE /\ drop'[l] # NONE) => drop'[l] = drop[l]]_vars

(* C3 witness: the 11th frame of "A" timed out, and the 12th was read and  *)
(* discarded while the entry of "A" was still running.                     *)
C3_Witness ==
    /\ drop["A"] # NONE
    /\ now < DropWindow
    /\ nframes["A"] = LinkCap + 2
    /\ rpc = "read"
    /\ Len(chans[read["A"]]) = LinkCap

(* C4 as claimed: a frame that arrived after the expiry of the entry of   *)
(* its link id is not discarded at the drop check.                         *)
C4_DeliveredAfterExpiry ==
    [][(rpc = "checkdrop" /\ rpc' # "checkdrop"
            /\ drop[rmsg.link] # NONE /\ rat > drop[rmsg.link])
          => rpc' = "lookup"]_vars

(* C4 amended: a frame passes the drop check exactly when the map holds no *)
(* entry of its link id; a scan of checkDrop collects every entry whose    *)
(* expiry has passed, and the delete that follows removes what was         *)
(* collected.                                                              *)
C4_DeliveredAfterSweep ==
    /\ [][(rpc = "checkdrop" /\ rpc' # "checkdrop")
              => (rpc' = "lookup" <=> drop[rmsg.link] = NONE)]_vars
    /\ [][(cdpc = "scan" /\ cdpc' = "delete")
              => \A l \in AllIds :
                     (drop[l] # NONE /\ now > drop[l]) => l \in drops']_vars
    /\ [][(cdpc = "delete" /\ cdpc' = "sleep")
              => \A l \in drops : drop'[l] = NONE]_vars

(* C4 witness: the 11th frame of "A" was dropped on timeout, the window    *)
(* has elapsed, the entry is gone and the 12th frame, which arrived after  *)
(* that, has passed the drop check.                                        *)
C4_Witness ==
    /\ rpc \in {"lookup", "select", "blocked"}
    /\ rmsg = Frame("data", "A", LinkCap + 2)
    /\ Len(chans[read["A"]]) = LinkCap
    /\ rat > DropWindow
    /\ drop["A"] = NONE

Min(a, b) == IF a < b THEN a ELSE b

(* C8: loopRead gives up a frame it has read only at the drop check, with  *)
(* an entry of its link id present, or when its blocked send times out on  *)
(* a channel that is full; a blocked send is blocked on a full channel;    *)
(* and a registered link that nobody drains and nobody resets holds its    *)
(* first 10 frames in arrival order, with none lost, and gets an entry     *)
(* only from a frame after the 10th.                                       *)
C8_LossOnlyAfterTimeout ==
    /\ [][(rmsg # NoMsg /\ rmsg' = NoMsg /\ chans' = chans)
              => \/ rpc = "checkdrop" /\ drop[rmsg.link] # NONE
                 \/ rpc = "blocked" /\ rtimer = 0 /\ Full(rch)]_vars
    /\ [](rpc = "blocked"
              => Full(rch) /\ \E i \in Waiting(rch) : waitq[i].who = "loopRead")
    /\ [](\A id \in LinkIds :
              (read[id] # NIL /\ got[id] = <<>> /\ nresets = 0)
                  => LET q == chans[read[id]]
                         h == IF rmsg.link = id THEN 1 ELSE 0
                     IN /\ \A i \in 1..Len(q) : q[i] = Frame("data", id, i)
                        /\ Len(q) = Min(LinkCap, nframes[id] - h)
                        /\ drop[id] # NONE => nframes[id] > LinkCap)
    /\ [][\A id \in LinkIds :
              (drop[id] = NONE /\ drop'[id] # NONE) => rmsg.n > LinkCap]_vars

(* C8 witness: 11 frames were read for "A", 10 are buffered and the entry  *)
(* of "A" exists.                                                          *)
C8_Witness ==
    /\ nframes["A"] = LinkCap + 1
    /\ drop["A"] # NONE
    /\ Len(chans[read["A"]]) = LinkCap
    /\ got["A"] = <<>>

----------------------------------------------------------------------------
(* Properties of the read timeouts *)

(* C5: the counter never passes 60; loopRead has left its loop exactly     *)
(* when the counter is 60; a successful read, keepalive or not, sets the   *)
(* counter to 0; another read error leaves the counter and the loop as     *)
(* they are; the counter otherwise moves only up by one, on a timeout of   *)
(* ReadMessage; and once loopRead is done the context is cancelled and the *)
(* link is closed.                                                         *)
C5_TimeoutTermination ==
    /\ [](timeout <= MaxTimeouts)
    /\ [](rpc \in {"cancel", "close", "done"} <=> timeout = MaxTimeouts)
    /\ [][nread' # nread => timeout' = 0]_vars
    /\ [][rerrs' # rerrs => timeout' = timeout /\ rpc' = rpc /\ rpc = "read"]_vars
    /\ [][timeout' \notin {timeout, 0}
              => timeout' = timeout + 1 /\ rpc = "read" /\ rtimer = 0]_vars
    /\ [](rpc = "done" => ctxDone /\ conn = "closed")

(* C5 witness: loopRead is done after 60 timeouts in a row, having read a  *)
(* keepalive and logged another read error on the way.                     *)
C5_Witness ==
    /\ rpc = "done"
    /\ timeout = MaxTimeouts
    /\ nframes[NoLink] >= 1
    /\ rerrs >= 1
    /\ now > MaxTimeouts

----------------------------------------------------------------------------
(* Properties of cancellation *)

(* C11 as claimed: the context, once cancelled, stays cancelled, and from  *)
(* then on loopRead, loopWrite and keepalive each eventually terminate.    *)
C11_AllLoopsExit ==
    /\ [][ctxDone => ctxDone']_vars
    /\ ctxDone ~> (rpc = "done" /\ wpc = "done" /\ kpc = "done")

(* C12 as claimed: Close of the physical link is called at most once, and  *)
(* exactly once when the three loops have run their teardown.              *)
C12_ClosedOnce ==
    /\ closeCalls <= 1
    /\ (rpc = "done" /\ wpc = "done" /\ kpc = "done") => closeCalls = 1

----------------------------------------------------------------------------
(* Properties of the outbound side *)

(* The tasks that are inside a WriteMessage of the physical link.          *)
Writers ==
    (IF npc = "handshake" THEN {"New"} ELSE {})
        \cup (IF wpc = "write" THEN {"loopWrite"} ELSE {})

(* C13: at most one write of the physical link is in progress; while the   *)
(* handshake is being written no loop has been started; once New has       *)
(* returned only loopWrite is a writer; a write is recorded on the link    *)
(* only by the WriteMessage step of loopWrite; and a step of keepalive     *)
(* writes nothing on the link: its message goes on conn.write.             *)
C13_SingleWriter ==
    /\ [](Cardinality(Writers) <= 1)
    /\ [](npc \in {"dial", "handshake"} => LoopsIdle /\ sent = <<>>)
    /\ [](npc = "returned" => Writers \subseteq {"loopWrite"})
    /\ [][sent' # sent
              => /\ wpc = "write" /\ wpc' = "select"
                 /\ Len(sent') = Len(sent) + 1
                 /\ sent'[Len(sent')].msg = wmsg]_vars
    /\ [][kpc' # kpc /\ kpc = "send"
              => /\ sent' = sent
                 /\ write' = Append(write, Out("keepalive", LocalID, nout + 1))]_vars

(* C13 witness: loopWrite is writing a keepalive message while a           *)
(* producer's message waits on the queue.                                  *)
C13_Witness ==
    /\ wpc = "write"
    /\ wmsg.type = "keepalive"
    /\ Len(write) >= 1
    /\ Len(sent) >= 1

(* The positions on the queue of the messages of q.                        *)
Positions(q) == [i \in 1..Len(q) |-> q[i].n]

(* C14: the messages written, then the one being written, then those still *)
(* queued, are in the order they were queued, each once; every message     *)
(* written or being written carries the local id as sender; and a write    *)
(* that fails leaves loopWrite in its loop, back at the select, with the   *)
(* queue as it was and the context and the link untouched.                 *)
C14_WriteOnceStamped ==
    /\ [](LET taken == [i \in 1..Len(sent) |-> sent[i].msg]
              hand == IF wpc = "write" THEN <<wmsg>> ELSE <<>>
              ns == Positions(taken \o hand \o write)
          IN \A i, j \in 1..Len(ns) : i < j => ns[i] < ns[j])
    /\ [](\A i \in 1..Len(sent) : sent[i].msg.from = LocalID)
    /\ [](wpc = "write" => wmsg.from = LocalID)
    /\ [][(sent' # sent /\ ~sent'[Len(sent')].ok)
              => /\ wpc' = "select"
                 /\ write' = write
                 /\ ctxDone' = ctxDone
                 /\ closeCalls' = closeCalls /\ conn' = conn]_vars

(* C14 witness: a write failed, the next message was written, and a        *)
(* message a producer queued under another sender is being written.        *)
C14_Witness ==
    /\ Len(sent) >= 2
    /\ ~sent[1].ok
    /\ sent[2].ok
    /\ wpc = "write"
    /\ wmsg.orig # LocalID
    /\ wmsg.from = LocalID

----------------------------------------------------------------------------
(* Properties of a stalled consumer *)

(* A frame of link id is in the hands of loopRead, before its send.        *)
Holding(id) == rpc \in {"checkdrop", "lookup", "select"} /\ rmsg.link = id

(* C15: a send of loopRead that blocks ends within the read timeout, with  *)
(* loopRead back at ReadMessage; while "A" is full and undrained, loopRead *)
(* finishes with a frame of "B" it holds, "B" being unsuppressed and its   *)
(* channel not full, and finishes with it only by appending it to the      *)
(* channel of "B"; and loopRead never blocks on a channel that has room.   *)
C15_StallDoesNotBlock ==
    /\ (rpc = "blocked" /\ now < StallTime) ~> (rpc = "read")
    /\ (Holding("B") /\ drop["B"] = NONE /\ ~Full(read["B"]) /\ Full(read["A"]))
          ~> (rpc = "read")
    /\ [][(Holding("B") /\ drop["B"] = NONE /\ ~Full(read["B"]) /\ rpc' = "read")
              => chans'[read["B"]] = Append(chans[read["B"]], rmsg)]_vars
    /\ [](rpc = "blocked" => Full(rch))

(* C15 witness: the first frame of "B" is in the hands of loopRead after a *)
(* send to the full channel of "A" timed out.                              *)
C15_Witness ==
    /\ Holding("B")
    /\ rmsg.n = 1
    /\ Full(read["A"])
    /\ drop["A"] # NONE
    /\ chans[read["B"]] = <<>>

----------------------------------------------------------------------------
(* Properties of suppression and registration *)

(* C16: a frame whose link id has an entry is discarded at the drop check, *)
(* with no channel touched, whether or not the id is registered by then;   *)
(* a frame whose link id has no entry passes the check, whatever entries   *)
(* other ids have; an entry is made under the link id of the frame whose   *)
(* send timed out, whichever channel that send was on; and AddLink leaves  *)
(* the drop map as it is.                                                  *)
C16_KeyedOnIdAlone ==
    /\ [][(rpc = "checkdrop" /\ rpc' # "checkdrop" /\ drop[rmsg.link] # NONE)
              => rpc' = "read" /\ chans' = chans /\ waitq' = waitq]_vars
    /\ [][(rpc = "checkdrop" /\ rpc' # "checkdrop" /\ drop[rmsg.link] = NONE)
              => rpc' = "lookup" /\ rmsg' = rmsg]_vars
    /\ [][\A l \in AllIds :
              (drop[l] = NONE /\ drop'[l] # NONE)
                  => rpc = "blocked" /\ l = rmsg.link]_vars
    /\ [][addCalls' # addCalls => drop' = drop]_vars

(* C16 witness: the frames of "A" passed the drop check while "B" had an   *)
(* entry, the entry of "A" was made by a timeout on the full unknown       *)
(* channel, "A" was registered after that, and a frame of "A" read after   *)
(* the registration was discarded: the channel of "A" is still empty.      *)
C16_Witness ==
    /\ Len(chans[ChanUnknown]) = UnknownCap
    /\ drop["A"] # NONE
    /\ drop["B"] # NONE
    /\ read["A"] # NIL
    /\ nframes["A"] = UnknownCap + 2
    /\ rpc = "read"
    /\ chans[read["A"]] = <<>>

----------------------------------------------------------------------------
(* Properties of the locks *)

Tasks == {"loopRead", "checkDrop", "AddLink", "Reset", "ChanRead"}

(* The positions at which a task is about to touch conn.drop: its reads,   *)
(* and its writes.                                                         *)
DropReaders ==
    {t \in Tasks : \/ t = "loopRead" /\ rpc = "dropread"
                   \/ t = "checkDrop" /\ cdpc \in {"scan", "range"}}

DropWriters ==
    {t \in Tasks : \/ t = "loopRead" /\ rpc = "dropwrite"
                   \/ t = "checkDrop" /\ cdpc = "deleting"}

(* The same for conn.read.                                                 *)
RegReaders ==
    {t \in Tasks : \/ t = "loopRead" /\ rpc = "regread"
                   \/ t = "Reset" /\ upc["Reset"].pc = "rlocked"
                   \/ t = "ChanRead" /\ upc["ChanRead"].pc = "rlocked"}

RegWriters == {t \in Tasks : t = "AddLink" /\ upc["AddLink"].pc = "locked"}

(* C17: a task about to read the drop map holds the drop lock, a task      *)
(* about to write it holds the drop lock for writing, the same for the     *)
(* registry and its lock, and no task reads a map without its lock while   *)
(* another task writes it.                                                 *)
C17_MapsLocked ==
    /\ \A t \in DropReaders : Holds(lockDrop, t)
    /\ \A t \in DropWriters : lockDrop.w = t
    /\ \A t \in RegReaders : Holds(lockReg, t)
    /\ \A t \in RegWriters : lockReg.w = t
    /\ \A t \in DropReaders : ~Holds(lockDrop, t) => DropWriters \ {t} = {}
    /\ \A t \in RegReaders : ~Holds(lockReg, t) => RegWriters \ {t} = {}

(* The same without the read of len(conn.drop) at line 214: what is left   *)
(* of C17 when that read is set aside.                                     *)
MapsLockedButLen ==
    /\ (rpc = "dropread" => Holds(lockDrop, "loopRead"))
    /\ (cdpc = "range" => Holds(lockDrop, "checkDrop"))
    /\ \A t \in DropWriters : lockDrop.w = t
    /\ \A t \in RegReaders : Holds(lockReg, t)
    /\ \A t \in RegWriters : lockReg.w = t

(* checkDrop reads len(conn.drop) while loopRead writes conn.drop.         *)
LenRace == cdpc = "scan" /\ rpc = "dropwrite"

(* C18: an entry leaves the drop map only in the delete of checkDrop and   *)
(* only after its expiry has passed; the ids checkDrop holds for deletion  *)
(* have entries, all of them expired, whatever loopRead did in between.    *)
C18_OnlyExpiredRemoved ==
    /\ [][\A l \in AllIds :
              (drop[l] # NONE /\ drop'[l] # drop[l])
                  => cdpc = "delete" /\ drop'[l] = NONE /\ now > drop[l]]_vars
    /\ [](cdpc = "delete" => \A l \in drops : drop[l] # NONE /\ now > drop[l])

(* C18 witness: the entry of "A" has just been deleted, after its expiry,  *)
(* with a frame of "A" read before the delete in the hands of loopRead.    *)
C18_Witness ==
    /\ cdpc = "sleep"
    /\ ctimer = SweepInterval
    /\ drop["A"] = NONE
    /\ nframes["A"] > LinkCap + 1
    /\ now > DropWindow
    /\ rpc = "checkdrop"
    /\ rmsg.link = "A"

(* C19: once the cancellation signal fired, checkDrop eventually stops.    *)
C19_SweepStops == ctxDone ~> (cdpc \notin {"sleep", "scan", "delete"})

(* C20: no task holds both locks; a task holds a lock only inside the      *)
(* section the lock guards, so not at ReadMessage, not in the select, not  *)
(* in a sleep and not in the send of Reset; a section can always take its  *)
(* next step, which releases the lock; and a lock held for writing has no  *)
(* readers.                                                                *)
C20_LockHygiene ==
    /\ \A t \in Tasks : ~(Holds(lockReg, t) /\ Holds(lockDrop, t))
    /\ \A t \in Tasks : Holds(lockDrop, t) => t \in DropReaders \cup DropWriters
    /\ \A t \in Tasks : Holds(lockReg, t) => t \in RegReaders \cup RegWriters
    /\ (Holds(lockDrop, "checkDrop") => cdpc \in {"range", "deleting"})
    /\ (upc["Reset"].pc \in {"send", "blocked"}
           => ~Holds(lockReg, "Reset") /\ ~Holds(lockDrop, "Reset"))
    /\ (rpc \in {"read", "select", "blocked"}
           => ~Holds(lockReg, "loopRead") /\ ~Holds(lockDrop, "loopRead"))
    /\ (rpc = "dropread" => ENABLED DropRead)
    /\ (rpc = "dropwrite" => ENABLED DropWrite)
    /\ (rpc = "regread" => ENABLED RegRead)
    /\ (cdpc = "range" => ENABLED SweepRange)
    /\ (cdpc = "deleting" => ENABLED SweepDeleteUnlock)
    /\ (upc["AddLink"].pc = "locked" => ENABLED AddLinkStore)
    /\ (upc["Reset"].pc = "rlocked" => ENABLED ResetLoad)
    /\ (upc["ChanRead"].pc = "rlocked" => ENABLED ChanReadReturn)
    /\ (lockReg.w # "" => lockReg.r = {})
    /\ (lockDrop.w # "" => lockDrop.r = {})

(* C20 witness: with Reset blocked on the full channel of "A" and loopRead *)
(* blocked in its select, AddLink holds the registry lock for writing and  *)
(* checkDrop the drop lock.                                                *)
C20_Witness ==
    /\ upc["Reset"].pc = "blocked"
    /\ upc["Reset"].ch # NIL
    /\ rpc = "blocked"
    /\ lockReg.w = "AddLink"
    /\ Holds(lockDrop, "checkDrop")

(* Reset blocked on the nil channel of an unregistered id, while ChanRead  *)
(* holds the registry lock.                                                *)
ResetBlockedOnNil ==
    /\ upc["Reset"].pc = "blocked"
    /\ upc["Reset"].ch = NIL
    /\ Holds(lockReg, "ChanRead")

====
